---- MODULE Spec2Model ----
(***************************************************************************)
(* A model of bismarck_commands/src/wish.rs: the pity-aware distribution   *)
(* (Weights::get_distribution), the regular roll engine (RegularWish) and  *)
(* the featured roll engine (FeaturedWish).                                *)
(*                                                                         *)
(* A behaviour is one caller threading the state returned by a roll into   *)
(* the next roll of the same wish (SpecRegular, SpecFeatured), or one      *)
(* caller making a call and repeating it (SpecCalls).  The f64 values of the code are         *)
(* modelled as exact non-negative rationals extended with +inf and NaN     *)
(* (what IEEE division by zero yields); the rounding of f64 is not         *)
(* modelled.  The u32 counters are bounded by MaxCount, below the point    *)
(* where `+ 1` would overflow.                                             *)
(***************************************************************************)
EXTENDS Integers, Sequences, FiniteSets, TLC

VARIABLES
    wish,   \* the wish the caller rolls on (RegularWish / FeaturedWish)
    state,  \* the state the caller holds (RegularState / FeaturedState)
    prev,   \* the state that was passed to the last call of roll
    rng,    \* what the random source yielded to the last call of roll
    dist,   \* the distribution the last call of roll computed
    roll,   \* the Roll the last call returned ("None": no call, "Panic": it aborted)
    hist    \* what the caller has seen over the rolls so far

vars == <<wish, state, prev, rng, dist, roll, hist>>

----------------------------------------------------------------------------
(* Bounds of the model. *)

\* the counters of a state stay within 1..MaxCount
MaxCount == 4
\* s5_start and s5_end are drawn from 1..MaxPity
MaxPity == 3
\* s4_proc is drawn from 1..MaxProc
MaxProc == 2
\* the size of a non-empty pool
MaxPool == 1
\* the chances of a wish are the multiples of 1/ChanceDen in [0, 1]
ChanceDen == 2
\* the uniform draws are the multiples of 1/DrawDen in [0, 1)
DrawDen == 4
\* in SpecCalls a pool holds 0..MaxSize items, and the integer behind
\* gen_range is drawn from 0..MaxSize
MaxSize == 2

----------------------------------------------------------------------------
(* f64: a non-negative rational n/d in lowest terms, +inf or NaN. *)

RECURSIVE GCD(_, _)
GCD(a, b) == IF b = 0 THEN a ELSE GCD(b, a % b)

Fin(n, d) ==
    LET g == GCD(n, d)
    IN  [k |-> "fin", n |-> n \div g, d |-> d \div g]

Inf == [k |-> "inf", n |-> 1, d |-> 0]
NaN == [k |-> "nan", n |-> 0, d |-> 0]

Zero == Fin(0, 1)
One  == Fin(1, 1)
Two  == Fin(2, 1)

\* `x as f64` of a u32
AsF64(x) == Fin(x, 1)

\* a + b
FAdd(a, b) ==
    IF a.k = "nan" \/ b.k = "nan" THEN NaN
    ELSE IF a.k = "inf" \/ b.k = "inf" THEN Inf
    ELSE Fin(a.n * b.d + b.n * a.d, a.d * b.d)

\* a - b, for a >= b
FSub(a, b) ==
    IF a.k = "nan" \/ b.k = "nan" THEN NaN
    ELSE IF b.k = "inf" THEN NaN
    ELSE IF a.k = "inf" THEN Inf
    ELSE Fin(a.n * b.d - b.n * a.d, a.d * b.d)

\* a * b
FMul(a, b) ==
    IF a.k = "nan" \/ b.k = "nan" THEN NaN
    ELSE IF a.k = "inf" THEN (IF b.n = 0 THEN NaN ELSE Inf)
    ELSE IF b.k = "inf" THEN (IF a.n = 0 THEN NaN ELSE Inf)
    ELSE Fin(a.n * b.n, a.d * b.d)

\* a / b: x/0 is +inf for x > 0 and NaN for x = 0
FDiv(a, b) ==
    IF a.k = "nan" \/ b.k = "nan" THEN NaN
    ELSE IF a.k = "inf" THEN (IF b.k = "inf" THEN NaN ELSE Inf)
    ELSE IF b.k = "inf" THEN Zero
    ELSE IF b.n = 0 THEN (IF a.n = 0 THEN NaN ELSE Inf)
    ELSE Fin(a.n * b.d, a.d * b.n)

\* a < b: false when either is NaN
FLt(a, b) ==
    IF a.k = "nan" \/ b.k = "nan" THEN FALSE
    ELSE IF a.k = "inf" THEN FALSE
    ELSE IF b.k = "inf" THEN TRUE
    ELSE a.n * b.d < b.n * a.d

\* a >= b: false when either is NaN
FGe(a, b) ==
    IF a.k = "nan" \/ b.k = "nan" THEN FALSE
    ELSE IF a.k = "inf" THEN TRUE
    ELSE IF b.k = "inf" THEN FALSE
    ELSE a.n * b.d >= b.n * a.d

\* a > b: false when either is NaN
FGt(a, b) == FLt(b, a)

----------------------------------------------------------------------------
(* The value objects. *)

RegularState(since_s5, since_s4) ==
    [since_s5 |-> since_s5, since_s4 |-> since_s4]

FeaturedState(base, last_s5_featured, last_s4_featured) ==
    [base |-> base,
     last_s5_featured |-> last_s5_featured,
     last_s4_featured |-> last_s4_featured]

Weights(s5, s4) == [s5 |-> s5, s4 |-> s4]

Pity(s5_start, s5_end, s4_proc) ==
    [s5_start |-> s5_start, s5_end |-> s5_end, s4_proc |-> s4_proc]

Roll(kind, index) == [kind |-> kind, index |-> index]

RollKind ==
    {"FiveStar", "FiveStarFeatured", "FourStar", "FourStarFeatured", "ThreeStar"}

----------------------------------------------------------------------------
(* The random source: rng.u is the uniform f64 of `rng.gen()`, rng.b the   *)
(* uniform value behind `rng.gen_bool(p)`, rng.i the integer behind        *)
(* `rng.gen_range(0..n)`.                                                  *)

\* rng.gen_bool(p): true with probability p
gen_bool(r, p) == FLt(r.b, p)

\* the inclusive range 0..=n
gen_range_inclusive(r, n) == r.i % (n + 1)

\* rng.gen_range(0..n) for n > 0 (an empty range aborts the call)
gen_range(r, n) == r.i % n

\* what a call hands back: a Roll and the next state, or nothing (a panic)
Returned(r, next) == [ok |-> TRUE, roll |-> r, state |-> next]
Panicked(st) == [ok |-> FALSE, roll |-> Roll("Panic", 0), state |-> st]

----------------------------------------------------------------------------
(* Weights::get_distribution *)

\* s5_odds with the ramp counted as the s4 ramp is (one step early)
s5_odds_early(self, pity, st) ==
    IF st.since_s5 <= pity.s5_start
    THEN self.s5
    ELSE LET inc == FDiv(FSub(One, self.s5), AsF64(pity.s5_end - pity.s5_start))
         IN  FAdd(self.s5, FMul(inc, AsF64(st.since_s5 - pity.s5_start + 1)))

\* s5_odds with the ramp spread over one roll more (certainty one roll late)
s5_odds_late(self, pity, st) ==
    IF st.since_s5 <= pity.s5_start
    THEN self.s5
    ELSE LET inc == FDiv(FSub(One, self.s5),
                         AsF64(pity.s5_end - pity.s5_start + 1))
         IN  FAdd(self.s5, FMul(inc, AsF64(st.since_s5 - pity.s5_start)))

s5_odds(self, pity, st) ==
    IF st.since_s5 <= pity.s5_start
    THEN self.s5
    ELSE LET inc == FDiv(FSub(One, self.s5), AsF64(pity.s5_end - pity.s5_start))
         IN  FAdd(self.s5, FMul(inc, AsF64(st.since_s5 - pity.s5_start)))

\* s4_odds without the `+ 1` of its ramp
s4_odds_late(self, pity, st) ==
    IF st.since_s4 < pity.s4_proc
    THEN self.s4
    ELSE LET inc == FDiv(FSub(One, self.s4), Two)
         IN  FAdd(self.s4, FMul(inc, AsF64(st.since_s4 - pity.s4_proc)))

s4_odds(self, pity, st) ==
    IF st.since_s4 < pity.s4_proc
    THEN self.s4
    ELSE LET inc == FDiv(FSub(One, self.s4), Two)
         IN  FAdd(self.s4, FMul(inc, AsF64(st.since_s4 - pity.s4_proc + 1)))

get_distribution(self, pity, st) ==
    <<s5_odds(self, pity, st),
      FAdd(s4_odds(self, pity, st), s5_odds(self, pity, st))>>

----------------------------------------------------------------------------
(* impl RegularWish *)

RegularWish_make_s3_roll(self, st, r) ==
    IF self.three_star_count = 0 THEN Panicked(st)
    ELSE Returned(Roll("ThreeStar", gen_range(r, self.three_star_count)),
                  RegularState(st.since_s5 + 1, st.since_s4 + 1))

RegularWish_make_s4_roll(self, st, r) ==
    IF self.four_star_count = 0 THEN Panicked(st)
    ELSE Returned(Roll("FourStar", gen_range(r, self.four_star_count)),
                  RegularState(st.since_s5 + 1, 1))

\* make_s5_roll that leaves the 4 star count as it was
RegularWish_make_s5_roll_keeps_s4(self, st, r) ==
    IF self.five_star_count = 0 THEN Panicked(st)
    ELSE Returned(Roll("FiveStar", gen_range(r, self.five_star_count)),
                  RegularState(1, st.since_s4))

RegularWish_make_s5_roll(self, st, r) ==
    IF self.five_star_count = 0 THEN Panicked(st)
    ELSE Returned(Roll("FiveStar", gen_range(r, self.five_star_count)),
                  RegularState(1, st.since_s4 + 1))

\* roll that lets the calls made before it decide (an ambient generator)
RegularWish_roll_ambient(self, st, r) ==
    LET d == get_distribution(self.weights, self.pity, st)
    IN  IF hist.calls = 0 /\ FLt(r.u, d[1]) THEN RegularWish_make_s5_roll(self, st, r)
        ELSE IF FLt(r.u, d[2]) THEN RegularWish_make_s4_roll(self, st, r)
        ELSE RegularWish_make_s3_roll(self, st, r)

RegularWish_roll(self, st, r) ==
    LET d == get_distribution(self.weights, self.pity, st)
    IN  IF FLt(r.u, d[1]) THEN RegularWish_make_s5_roll(self, st, r)
        ELSE IF FLt(r.u, d[2]) THEN RegularWish_make_s4_roll(self, st, r)
        ELSE RegularWish_make_s3_roll(self, st, r)

----------------------------------------------------------------------------
(* impl FeaturedWish *)

\* a panic of the base engine leaves the caller without a state
Rebased(res, st, next) ==
    IF res.ok THEN Returned(res.roll, next) ELSE Panicked(st)

FeaturedWish_make_s3_roll(self, st, r) ==
    LET res == RegularWish_make_s3_roll(self.base, st.base, r)
    IN  Rebased(res, st,
                FeaturedState(res.state, st.last_s5_featured, st.last_s4_featured))

\* make_s4_roll that tests the flag of the other tier
FeaturedWish_make_s4_roll_other_flag(self, st, r) ==
    IF ~st.last_s5_featured \/ gen_bool(r, self.featured_chance)
    THEN IF self.four_star_featured_count = 0 THEN Panicked(st)
         ELSE Returned(Roll("FourStarFeatured",
                            gen_range(r, self.four_star_featured_count)),
                       FeaturedState(RegularState(st.base.since_s5, 1),
                                     st.last_s5_featured, TRUE))
    ELSE LET res == RegularWish_make_s4_roll(self.base, st.base, r)
         IN  Rebased(res, st,
                     FeaturedState(res.state, st.last_s5_featured, FALSE))

\* make_s4_roll that writes its flag into the slot of the other tier
FeaturedWish_make_s4_roll_swapped(self, st, r) ==
    IF ~st.last_s4_featured \/ gen_bool(r, self.featured_chance)
    THEN IF self.four_star_featured_count = 0 THEN Panicked(st)
         ELSE Returned(Roll("FourStarFeatured",
                            gen_range(r, self.four_star_featured_count)),
                       FeaturedState(RegularState(st.base.since_s5, 1),
                                     TRUE, st.last_s4_featured))
    ELSE LET res == RegularWish_make_s4_roll(self.base, st.base, r)
         IN  Rebased(res, st,
                     FeaturedState(res.state, FALSE, st.last_s4_featured))

FeaturedWish_make_s4_roll(self, st, r) ==
    IF ~st.last_s4_featured \/ gen_bool(r, self.featured_chance)
    THEN IF self.four_star_featured_count = 0 THEN Panicked(st)
         ELSE Returned(Roll("FourStarFeatured",
                            gen_range(r, self.four_star_featured_count)),
                       FeaturedState(RegularState(st.base.since_s5, 1),
                                     st.last_s5_featured, TRUE))
    ELSE LET res == RegularWish_make_s4_roll(self.base, st.base, r)
         IN  Rebased(res, st,
                     FeaturedState(res.state, st.last_s5_featured, FALSE))

\* make_s5_roll whose featured path counts the roll on the 4 star count
FeaturedWish_make_s5_roll_counts_s4(self, st, r) ==
    IF ~st.last_s4_featured \/ gen_bool(r, self.featured_chance)
    THEN IF self.five_star_featured_count = 0 THEN Panicked(st)
         ELSE Returned(Roll("FiveStarFeatured",
                            gen_range(r, self.five_star_featured_count)),
                       FeaturedState(RegularState(1, st.base.since_s4 + 1),
                                     TRUE, st.last_s4_featured))
    ELSE LET res == RegularWish_make_s5_roll(self.base, st.base, r)
         IN  Rebased(res, st,
                     FeaturedState(res.state, FALSE, st.last_s4_featured))

FeaturedWish_make_s5_roll(self, st, r) ==
    IF ~st.last_s4_featured \/ gen_bool(r, self.featured_chance)
    THEN IF self.five_star_featured_count = 0 THEN Panicked(st)
         ELSE Returned(Roll("FiveStarFeatured",
                            gen_range(r, self.five_star_featured_count)),
                       FeaturedState(RegularState(1, st.base.since_s4),
                                     TRUE, st.last_s4_featured))
    ELSE LET res == RegularWish_make_s5_roll(self.base, st.base, r)
         IN  Rebased(res, st,
                     FeaturedState(res.state, FALSE, st.last_s4_featured))

\* roll that validates the pools of the wish before it draws
FeaturedWish_roll_validated(self, st, r) ==
    LET d == get_distribution(self.base.weights, self.base.pity, st.base)
    IN  IF \/ self.base.five_star_count = 0
           \/ self.base.four_star_count = 0
           \/ self.base.three_star_count = 0
           \/ self.five_star_featured_count = 0
           \/ self.four_star_featured_count = 0
        THEN Panicked(st)
        ELSE IF FLt(r.u, d[1]) THEN FeaturedWish_make_s5_roll(self, st, r)
        ELSE IF FLt(r.u, d[2]) THEN FeaturedWish_make_s4_roll(self, st, r)
        ELSE FeaturedWish_make_s3_roll(self, st, r)

FeaturedWish_roll(self, st, r) ==
    LET d == get_distribution(self.base.weights, self.base.pity, st.base)
    IN  IF FLt(r.u, d[1]) THEN FeaturedWish_make_s5_roll(self, st, r)
        ELSE IF FLt(r.u, d[2]) THEN FeaturedWish_make_s4_roll(self, st, r)
        ELSE FeaturedWish_make_s3_roll(self, st, r)

\* whether a call whose uniform draw is u draws the override Bernoulli:
\* `||` evaluates gen_bool only when the flag tested before it is set (lines
\* 308 and 332 both test last_s4_featured), and only on a top- or
\* second-tier hit
gen_bool_drawn(self, st, u) ==
    LET d == get_distribution(self.base.weights, self.base.pity, st.base)
    IN  IF FLt(u, d[1]) THEN st.last_s4_featured
        ELSE IF FLt(u, d[2]) THEN st.last_s4_featured
        ELSE FALSE

----------------------------------------------------------------------------
(* The inputs a caller can supply. *)

Chances == {Fin(k, ChanceDen) : k \in 0..ChanceDen}

\* `rng.gen()`: a uniform f64 in [0, 1)
Draws == {Fin(j, DrawDen) : j \in 0..(DrawDen - 1)}

\* the uniform value behind `rng.gen_bool(p)`, in [0, 1)
Coins == {Fin(j, ChanceDen) : j \in 0..(ChanceDen - 1)}

\* the validated configurations: s5_start <= s5_end
Pities ==
    {Pity(a, b, c) : <<a, b, c>> \in
        {t \in (1..MaxPity) \X (1..MaxPity) \X (1..MaxProc) : t[1] <= t[2]}}

\* the pool sizes of a wish: five_star, four_star, three_star,
\* five_star_featured, four_star_featured
FullPools == [i \in 1..5 |-> MaxPool]

RegularWish(weights, pity, c) ==
    [weights |-> weights, pity |-> pity,
     five_star_count |-> c[1], four_star_count |-> c[2],
     three_star_count |-> c[3]]

FeaturedWish(base, c, featured_chance) ==
    [base |-> base, five_star_featured_count |-> c[4],
     four_star_featured_count |-> c[5], featured_chance |-> featured_chance]

RegularWishes ==
    {RegularWish(Weights(w[1], w[2]), p, FullPools) :
        <<w, p>> \in (Chances \X Chances) \X Pities}

FeaturedWishes ==
    {FeaturedWish(b, FullPools, f) : <<b, f>> \in RegularWishes \X Chances}

\* the wishes of SpecCalls: every pool size, empty pools included; the
\* weights send the draw 0 to the top tier, 1/DrawDen to the second tier and
\* the draws from 2/DrawDen on to the third tier
PoolSizes == [1..5 -> 0..MaxSize]

CallRegularWishes ==
    {RegularWish(Weights(Fin(1, DrawDen), Fin(1, DrawDen)),
                 Pity(1, MaxPity, MaxProc), [c EXCEPT ![4] = 0, ![5] = 0]) :
        c \in PoolSizes}

CallFeaturedWishes ==
    {FeaturedWish(RegularWish(Weights(Fin(1, DrawDen), Fin(1, DrawDen)),
                              Pity(1, MaxPity, MaxProc), c),
                  c, Fin(1, ChanceDen)) :
        c \in PoolSizes}

\* whether a wish is a FeaturedWish
IsFeatured(w) == "base" \in DOMAIN w

RegularStates ==
    {RegularState(a, b) : <<a, b>> \in (1..(MaxCount - 1)) \X (1..(MaxCount - 1))}

----------------------------------------------------------------------------
(* The caller: it threads the state from call to call and looks at what    *)
(* each roll returned.                                                     *)

TopKinds    == {"FiveStar", "FiveStarFeatured"}
SecondKinds == {"FourStar", "FourStarFeatured"}

\* what the caller of the regular engine keeps
Fresh(base) ==
    [start     |-> base,   \* the counters the thread started from
     no_s5_run |-> 0,      \* the rolls since the last top-tier drop
     s4_due    |-> FALSE,  \* the last roll was made at s4_proc, and gave no FourStar
     s4_missed |-> FALSE]  \* ... and the roll after it gave none either

Seen(h, pity, base, res) ==
    IF ~res.ok THEN h
    ELSE LET kind == res.roll.kind
         IN  [start     |-> h.start,
              no_s5_run |-> IF kind \in TopKinds THEN 0 ELSE h.no_s5_run + 1,
              s4_due    |-> base.since_s4 = pity.s4_proc /\ kind # "FourStar",
              s4_missed |-> h.s4_due /\ kind # "FourStar"]

\* the last two entries of a sequence
LastTwo(q) == IF Len(q) <= 2 THEN q ELSE SubSeq(q, Len(q) - 1, Len(q))

\* what the caller of the featured engine keeps
FreshFeatured ==
    [s5_drops  |-> <<>>,   \* the kinds of the last two top-tier drops
     s4_drops  |-> <<>>,   \* the kinds of the last two second-tier drops
     no_s5_run |-> 0]      \* the rolls since the last top-tier drop

SeenFeatured(h, res) ==
    IF ~res.ok THEN h
    ELSE LET kind == res.roll.kind
         IN  [s5_drops  |-> IF kind \in TopKinds
                            THEN LastTwo(Append(h.s5_drops, kind))
                            ELSE h.s5_drops,
              s4_drops  |-> IF kind \in SecondKinds
                            THEN LastTwo(Append(h.s4_drops, kind))
                            ELSE h.s4_drops,
              no_s5_run |-> IF kind \in TopKinds THEN 0 ELSE h.no_s5_run + 1]

NoRng == [u |-> Zero, b |-> Zero, i |-> 0]

----------------------------------------------------------------------------
(* The regular engine, threaded. *)

InitRegular ==
    /\ wish \in RegularWishes
    /\ state \in RegularStates
    /\ prev = state
    /\ rng = NoRng
    /\ dist = <<Zero, Zero>>
    /\ roll = Roll("None", 0)
    /\ hist = Fresh(state)

\* (roll, state) = wish.roll(state, &mut rng)
RegularRoll ==
    /\ roll.kind # "Panic"
    /\ state.since_s5 < MaxCount
    /\ state.since_s4 < MaxCount
    /\ \E u \in Draws, i \in 0..(MaxPool - 1) :
        \E r \in {[u |-> u, b |-> Zero, i |-> i]} :
        \E res \in {RegularWish_roll(wish, state, r)} :
            /\ prev' = state
            /\ rng' = r
            /\ dist' = get_distribution(wish.weights, wish.pity, state)
            /\ roll' = res.roll
            /\ state' = res.state
            /\ hist' = Seen(hist, wish.pity, state, res)
    /\ UNCHANGED wish

SpecRegular == InitRegular /\ [][RegularRoll]_vars

----------------------------------------------------------------------------
(* The featured engine, threaded. *)

InitFeatured ==
    /\ wish \in FeaturedWishes
    /\ state \in {FeaturedState(RegularState(1, 1), f5, f4) :
                    <<f5, f4>> \in BOOLEAN \X BOOLEAN}
    /\ prev = state
    /\ rng = NoRng
    /\ dist = <<Zero, Zero>>
    /\ roll = Roll("None", 0)
    /\ hist = FreshFeatured

\* (roll, state) = wish.roll(state, &mut rng)
FeaturedRoll ==
    /\ roll.kind # "Panic"
    /\ state.base.since_s5 < MaxCount
    /\ state.base.since_s4 < MaxCount
    /\ hist.no_s5_run < MaxCount
    /\ \E u \in Draws, i \in 0..(MaxPool - 1) :
        \E b \in (IF gen_bool_drawn(wish, state, u) THEN Coins ELSE {Zero}) :
        \E r \in {[u |-> u, b |-> b, i |-> i]} :
        \E res \in {FeaturedWish_roll(wish, state, r)} :
            /\ prev' = state
            /\ rng' = r
            /\ dist' = get_distribution(wish.base.weights, wish.base.pity, state.base)
            /\ roll' = res.roll
            /\ state' = res.state
            /\ hist' = SeenFeatured(hist, res)
    /\ UNCHANGED wish

SpecFeatured == InitFeatured /\ [][FeaturedRoll]_vars

----------------------------------------------------------------------------
(* One call of roll on a fresh state, and the same call once more: the     *)
(* same wish, the same state and a random source that yields the same      *)
(* draws.                                                                  *)

\* what the caller keeps: the number of calls made and what the first gave
NoCall(st) == [calls |-> 0, roll |-> Roll("None", 0), state |-> st]
FirstCall(res) == [calls |-> 1, roll |-> res.roll, state |-> res.state]

InitCalls ==
    /\ \/ /\ wish \in CallRegularWishes
          /\ state = RegularState(1, 1)
       \/ /\ wish \in CallFeaturedWishes
          /\ state \in {FeaturedState(RegularState(1, 1), f5, f4) :
                          <<f5, f4>> \in BOOLEAN \X BOOLEAN}
    /\ prev = state
    /\ rng = NoRng
    /\ dist = <<Zero, Zero>>
    /\ roll = Roll("None", 0)
    /\ hist = NoCall(state)

\* (roll, state) = wish.roll(state, &mut rng), wish a RegularWish
RegularCall ==
    /\ ~IsFeatured(wish)
    /\ hist.calls = 0
    /\ \E u \in Draws, i \in 0..MaxSize :
        \E r \in {[u |-> u, b |-> Zero, i |-> i]} :
        \E res \in {RegularWish_roll(wish, state, r)} :
            /\ prev' = state
            /\ rng' = r
            /\ dist' = get_distribution(wish.weights, wish.pity, state)
            /\ roll' = res.roll
            /\ state' = res.state
            /\ hist' = FirstCall(res)
    /\ UNCHANGED wish

\* the call of RegularCall made again on a clone of its state
RegularReplay ==
    /\ ~IsFeatured(wish)
    /\ hist.calls = 1
    /\ \E res \in {RegularWish_roll(wish, prev, rng)} :
            /\ dist' = get_distribution(wish.weights, wish.pity, prev)
            /\ roll' = res.roll
            /\ state' = res.state
            /\ hist' = [hist EXCEPT !.calls = 2]
    /\ UNCHANGED <<wish, prev, rng>>

\* (roll, state) = wish.roll(state, &mut rng), wish a FeaturedWish
FeaturedCall ==
    /\ IsFeatured(wish)
    /\ hist.calls = 0
    /\ \E u \in Draws, i \in 0..MaxSize :
        \E b \in (IF gen_bool_drawn(wish, state, u) THEN Coins ELSE {Zero}) :
        \E r \in {[u |-> u, b |-> b, i |-> i]} :
        \E res \in {FeaturedWish_roll(wish, state, r)} :
            /\ prev' = state
            /\ rng' = r
            /\ dist' = get_distribution(wish.base.weights, wish.base.pity, state.base)
            /\ roll' = res.roll
            /\ state' = res.state
            /\ hist' = FirstCall(res)
    /\ UNCHANGED wish

\* the call of FeaturedCall made again on a clone of its state
FeaturedReplay ==
    /\ IsFeatured(wish)
    /\ hist.calls = 1
    /\ \E res \in {FeaturedWish_roll(wish, prev, rng)} :
            /\ dist' = get_distribution(wish.base.weights, wish.base.pity, prev.base)
            /\ roll' = res.roll
            /\ state' = res.state
            /\ hist' = [hist EXCEPT !.calls = 2]
    /\ UNCHANGED <<wish, prev, rng>>

NextCalls == RegularCall \/ RegularReplay \/ FeaturedCall \/ FeaturedReplay

SpecCalls == InitCalls /\ [][NextCalls]_vars

----------------------------------------------------------------------------
(* What the claims read off a state. *)

\* roll has been called / has returned a Roll
Called == roll.kind # "None"
Rolled == roll.kind \in RollKind

\* the tier the draw of the last call selected
TopHit    == FLt(rng.u, dist[1])
SecondHit == ~FLt(rng.u, dist[1]) /\ FLt(rng.u, dist[2])
ThirdHit  == ~FLt(rng.u, dist[1]) /\ ~FLt(rng.u, dist[2])

----------------------------------------------------------------------------
(* The featured guarantee of the top tier. *)

\* C1: a top-tier hit from a state whose last top-tier drop was not
\* featured returns FiveStarFeatured and sets last_s5_featured, whatever
\* last_s4_featured and the override draw are.
C1_ForcedFeaturedTop ==
    (Rolled /\ TopHit /\ ~prev.last_s5_featured)
        => (roll.kind = "FiveStarFeatured" /\ state.last_s5_featured)

\* C2: two FiveStar (non-featured) outcomes are never consecutive top-tier
\* drops of a thread.
C2_NoTwoPlainTop ==
    hist.s5_drops # <<"FiveStar", "FiveStar">>

----------------------------------------------------------------------------
(* The regular engine. *)

\* C3: the counter of the dropped tier is 1 after the roll and every other
\* counter is its value before the roll plus 1.
C3_CounterLaw ==
    Rolled =>
        /\ TopHit => /\ roll.kind = "FiveStar"
                     /\ state = RegularState(1, prev.since_s4 + 1)
        /\ SecondHit => /\ roll.kind = "FourStar"
                        /\ state = RegularState(prev.since_s5 + 1, 1)
        /\ ThirdHit => /\ roll.kind = "ThreeStar"
                       /\ state = RegularState(prev.since_s5 + 1,
                                               prev.since_s4 + 1)

C3_Witness ==
    /\ roll.kind = "FiveStar"
    /\ prev = RegularState(3, 2)
    /\ state = RegularState(1, 3)

\* C4: with s5_start <= s5_end, a state with since_s5 >= s5_end has
\* distribution[0] >= 1.
C4_CertainAtHardCap ==
    (Called /\ wish.pity.s5_start <= wish.pity.s5_end
            /\ prev.since_s5 >= wish.pity.s5_end)
        => FGe(dist[1], One)

C6_SecondComponent ==
    Called =>
        LET p == wish.pity
            b == wish.weights.s4
            c == prev.since_s4
            comp == s4_odds(wish.weights, p, prev)
        IN  /\ c < p.s4_proc => comp = b
            /\ c >= p.s4_proc =>
                  comp = Fin(2 * b.n + (b.d - b.n) * (c - p.s4_proc + 1), 2 * b.d)
            /\ c >= p.s4_proc + 1 => FGe(comp, One) /\ FGe(dist[2], One)

----------------------------------------------------------------------------
(* The featured flags and the second-tier track. *)

\* C9: a flag differs from its value before the roll only after a roll of
\* its tier, a third-tier roll leaves both flags, and after a roll of a tier
\* the flag of the tier says whether the kind was the featured one.
C9_FlagsFrame ==
    Rolled =>
        /\ state.last_s5_featured # prev.last_s5_featured
              => roll.kind \in TopKinds
        /\ state.last_s4_featured # prev.last_s4_featured
              => roll.kind \in SecondKinds
        /\ roll.kind = "ThreeStar" =>
              /\ state.last_s5_featured = prev.last_s5_featured
              /\ state.last_s4_featured = prev.last_s4_featured
        /\ roll.kind \in TopKinds =>
              state.last_s5_featured = (roll.kind = "FiveStarFeatured")
        /\ roll.kind \in SecondKinds =>
              state.last_s4_featured = (roll.kind = "FourStarFeatured")

C9_Witness ==
    /\ roll.kind = "FourStar"
    /\ prev.last_s4_featured /\ ~state.last_s4_featured
    /\ ~prev.last_s5_featured /\ ~state.last_s5_featured

\* C10: a second-tier hit returns FourStarFeatured if last_s4_featured was
\* false or the override draw succeeds and FourStar otherwise, whatever
\* last_s5_featured is, and two FourStar outcomes are never consecutive
\* second-tier drops of a thread.
C10_SecondTierTrack ==
    /\ (Rolled /\ SecondHit) =>
          /\ roll.kind =
                IF ~prev.last_s4_featured
                      \/ FLt(rng.b, wish.featured_chance)
                THEN "FourStarFeatured" ELSE "FourStar"
          /\ FeaturedWish_roll(wish,
                [prev EXCEPT !.last_s5_featured = ~@], rng).roll = roll
    /\ hist.s4_drops # <<"FourStar", "FourStar">>

C10_Witness ==
    /\ roll.kind = "FourStarFeatured"
    /\ hist.s4_drops = <<"FourStar", "FourStarFeatured">>
    /\ ~prev.last_s4_featured /\ state.last_s4_featured
    /\ prev.last_s5_featured /\ state.last_s5_featured

----------------------------------------------------------------------------
(* The top-tier track of the featured engine. *)

\* C12: a top-tier hit from a state whose last top-tier drop was featured
\* returns FiveStarFeatured if the override draw succeeds and FiveStar with
\* last_s5_featured = false otherwise, and the same call from the state with
\* last_s4_featured flipped returns the same kind.
C12_TopTrackFromSatisfied ==
    (Rolled /\ TopHit /\ prev.last_s5_featured) =>
        /\ roll.kind = IF gen_bool(rng, wish.featured_chance)
                       THEN "FiveStarFeatured" ELSE "FiveStar"
        /\ roll.kind = "FiveStar" => ~state.last_s5_featured
        /\ FeaturedWish_roll(wish, [prev EXCEPT !.last_s4_featured = ~@],
                             rng).roll.kind = roll.kind

----------------------------------------------------------------------------
(* The featured engine against the regular engine. *)

\* the kind without its featured tag
Tier(kind) ==
    IF kind \in TopKinds THEN "FiveStar"
    ELSE IF kind \in SecondKinds THEN "FourStar"
    ELSE kind

\* C13: a featured roll selects the tier that RegularWish::roll selects for
\* the base state and the same draw, and the base counters it returns are
\* the RegularState that RegularWish::roll returns.
C13_FeaturedRefinesRegular ==
    Rolled =>
        LET reg == RegularWish_roll(wish.base, prev.base, rng)
        IN  /\ Tier(roll.kind) = reg.roll.kind
            /\ state.base = reg.state

C15_FeaturedHardCapWindow ==
    wish.base.pity.s5_start < wish.base.pity.s5_end
        => hist.no_s5_run < wish.base.pity.s5_end

----------------------------------------------------------------------------
(* The second-tier guarantee as seen by the caller. *)

\* C16: a roll from a state with since_s4 >= s4_proc + 1 is never ThreeStar,
\* whatever the draw is.
C16_NoThirdPastGuarantee ==
    (Rolled /\ prev.since_s4 >= wish.pity.s4_proc + 1)
        => roll.kind # "ThreeStar"

----------------------------------------------------------------------------
(* The pools. *)

\* the regular part of a wish
BaseOf(w) == IF IsFeatured(w) THEN w.base ELSE w

\* the size of the pool that a kind indexes
PoolOf(w, kind) ==
    CASE kind = "FiveStar"         -> BaseOf(w).five_star_count
      [] kind = "FourStar"         -> BaseOf(w).four_star_count
      [] kind = "ThreeStar"        -> BaseOf(w).three_star_count
      [] kind = "FiveStarFeatured" -> w.five_star_featured_count
      [] kind = "FourStarFeatured" -> w.four_star_featured_count

\* every pool of the wish holds an item
NonEmptyPools(w) ==
    /\ \A kind \in {"FiveStar", "FourStar", "ThreeStar"} : PoolOf(w, kind) > 0
    /\ IsFeatured(w) =>
          \A kind \in {"FiveStarFeatured", "FourStarFeatured"} : PoolOf(w, kind) > 0

\* C17: with non-empty pools, the index of the Roll lies in [0, n), n the
\* size of the pool of the returned kind, and a RegularWish returns no
\* featured kind.
C17_IndexInPool ==
    (Rolled /\ NonEmptyPools(wish)) =>
        /\ 0 <= roll.index
        /\ roll.index < PoolOf(wish, roll.kind)
        /\ ~IsFeatured(wish) => roll.kind \in {"FiveStar", "FourStar", "ThreeStar"}

C17_Witness ==
    /\ NonEmptyPools(wish)
    /\ roll = Roll("FourStarFeatured", 0)
    /\ rng.i = MaxSize
    /\ wish.four_star_featured_count = 1
    /\ wish.base.four_star_count = MaxSize

\* the wish with an item in every pool
Refilled(w) ==
    IF IsFeatured(w)
    THEN FeaturedWish(RegularWish(w.base.weights, w.base.pity, FullPools),
                      FullPools, w.featured_chance)
    ELSE RegularWish(w.weights, w.pity, FullPools)

\* the kind that the tier of the draw and the featured decision select: the
\* kind of the Roll when no pool is empty
SelectedKind ==
    IF IsFeatured(wish)
    THEN FeaturedWish_roll(Refilled(wish), prev, rng).roll.kind
    ELSE RegularWish_roll(Refilled(wish), prev, rng).roll.kind

\* C18: a call aborts, returning no Roll, when the pool of the selected kind
\* is empty, and returns a Roll of the selected kind when it is not, whatever
\* the sizes of the other pools are.
C18_EmptyPoolAborts ==
    Called =>
        /\ PoolOf(wish, SelectedKind) = 0 => roll.kind = "Panic"
        /\ PoolOf(wish, SelectedKind) > 0 => roll.kind = SelectedKind

C18_Witness ==
    /\ roll.kind = "Panic"
    /\ SelectedKind = "FiveStarFeatured"
    /\ wish.five_star_featured_count = 0
    /\ wish.four_star_featured_count > 0
    /\ \A kind \in {"FiveStar", "FourStar", "ThreeStar"} : PoolOf(wish, kind) > 0

----------------------------------------------------------------------------
(* Reproducibility. *)

====
